---- MODULE Spec2Model ----
(***************************************************************************)
(* The static analyser of src/analyser.rs (StaticAnalyser, an AstVisitor)  *)
(* driven by the pre-order traversal of src/parser/ast.rs                  *)
(* (AstNode::traverse).                                                    *)
(*                                                                         *)
(* An AST is held as the sequence of its nodes in pre-order; a node        *)
(* carries the number of its children, so the sequence determines the      *)
(* tree.  The span of a node is its position in that sequence (distinct    *)
(* nodes have distinct spans).  Scopes (Context) live in an arena `ctx`:   *)
(* an Rc<RefCell<Context>> is an index into it, parent = 0 is None.        *)
(***************************************************************************)
EXTENDS Integers, Sequences, FiniteSets, TLC

\* ---------------------------------------------------------------- bounds
\* size of what completes an input AST (nodes and parameters)
MaxNodes == 3
\* calls a driver of its own makes on the visitor
MaxEvents == 3
\* parameters and arguments of the nodes such a driver hands over
MaxArity == 1

\* identifiers of the analysed programs
Names == {"a", "f"}

VARIABLES
    ast,        \* the input AST, pre-order; nodes past Len(ast) are not yet fixed
    free,       \* size of the nodes of ast that were fixed during the traversal
    pos,        \* number of nodes internal_traverse has been called on
    stack,      \* the recursion of internal_traverse: frames [idx, left]
    pc,         \* "run" while traversing, "done" after traverse returned
    ctx,        \* arena of Context records
    current,    \* StaticAnalyser.current
    errors,     \* StaticAnalyser.errors
    panicked,   \* a panic! aborted the process
    event       \* the last call made on the visitor

visitor == <<ctx, current, errors, panicked>>
driver == <<ast, free, pos, stack, pc>>
vars == <<ast, free, pos, stack, pc, ctx, current, errors, panicked, event>>

\* ------------------------------------------------------------------- AST
BinOp == {"Assign", "Or", "And", "Eq", "NotEq", "Add", "Sub", "Mul", "Div"}

\* The operators the inputs are drawn from: every operator but Assign takes
\* the same arm of observe, Add stands for them.
OpsDrawn == {"Assign", "Add"}

Node(kind, name, params, n, op) ==
    [kind |-> kind, name |-> name, params |-> params, n |-> n, op |-> op]

AstString == Node("String", "", <<>>, 0, "")
AstNumber == Node("Number", "", <<>>, 0, "")
ReferenceExpr(name) == Node("ReferenceExpr", name, <<>>, 0, "")
FunctionExpr(name, params, n) == Node("FunctionExpr", name, params, n, "")
FunctionCall(name, n) == Node("FunctionCall", name, <<>>, n, "")
VariableDef(name, n) == Node("VariableDef", name, <<>>, n, "")
Block(n) == Node("Block", "", <<>>, n, "")
AstBinOp(op) == Node("BinOp", "", <<>>, 2, op)

\* stands for "no first child" where observe looks into a node
NoNode == Node("None", "", <<>>, 0, "")

SeqsUpTo(S, k) == UNION {[1..m -> S] : m \in 0..k}

\* a completed input has fewer parameters in all than MaxNodes
ParamLists == SeqsUpTo(Names, MaxNodes - 1)

\* Every node an input is completed with; a node has fewer children than
\* MaxNodes.  Ast::String takes the same arm of observe, of backtrack and of
\* internal_traverse as Ast::Number, which stands for both here.
Nodes ==
    {AstNumber}
    \cup {ReferenceExpr(nm) : nm \in Names}
    \cup {FunctionExpr(nm, ps, k) : nm \in Names, ps \in ParamLists, k \in 0..(MaxNodes - 1)}
    \cup {FunctionCall(nm, k) : nm \in Names, k \in 0..(MaxNodes - 1)}
    \cup {VariableDef(nm, k) : nm \in Names, k \in 0..1}
    \cup {Block(k) : k \in 0..(MaxNodes - 1)}
    \cup {AstBinOp(op) : op \in OpsDrawn}

RECURSIVE SumKids(_)
SumKids(a) == IF a = <<>> THEN 0 ELSE a[1].n + SumKids(Tail(a))

\* child places of the nodes of a that no node fills yet (the root's included)
Open(a) == 1 + SumKids(a) - Len(a)

\* the size of a node: itself and its parameters
Size(nd) == 1 + Len(nd.params)

\* An input is one of the Given beginnings completed by nodes of total size
\* at most MaxNodes, fixed one node at a time: a, completed by size fr so far,
\* may be continued by nd when the tree can still be completed within MaxNodes.
Fits(a, fr, nd) == Open(a) > 0 /\ fr + Size(nd) - 1 + Open(a) + nd.n <= MaxNodes

\* a, or a with node number k fixed when it was not yet
Fix(a, fr, k) ==
    IF Len(a) >= k THEN {a} ELSE {Append(a, nd) : nd \in {x \in Nodes : Fits(a, fr, x)}}

\* Skip(a, i, k): the position after the k subtrees that start at position i
RECURSIVE Skip(_, _, _)
Skip(a, i, k) == IF k = 0 \/ i > Len(a) THEN i ELSE Skip(a, i + 1, k - 1 + a[i].n)

\* node j lies in the subtree of node i
InSub(a, i, j) == i <= j /\ j < Skip(a, i, 1)

\* ----------------------------------------------------------- definitions
DefVar(span, name, defined, used, callable) ==
    [tag |-> "Var", span |-> span, name |-> name, defined |-> defined,
     used |-> used, callable |-> callable, args |-> 0]

DefFn(span, name, args) ==
    [tag |-> "Fn", span |-> span, name |-> name, defined |-> FALSE,
     used |-> FALSE, callable |-> FALSE, args |-> args]

\* HashMap::insert
Insert(defs, name, def) ==
    [k \in DOMAIN defs \cup {name} |-> IF k = name THEN def ELSE defs[k]]

NoDefs == [k \in {} |-> 0]

Context(name, parent, defs) ==
    [name |-> name, parent |-> parent, children |-> <<>>, defs |-> defs]

Error(kind, name, span) == [kind |-> kind, name |-> name, span |-> span]

\* -------------------------------------------------------------- Context
\* Holder with the search turned round: the outermost scope that defines name
RECURSIVE HolderOutermost(_, _, _)
HolderOutermost(cx, c, name) ==
    LET up == IF cx[c].parent # 0 THEN HolderOutermost(cx, cx[c].parent, name) ELSE 0
    IN  IF up # 0 THEN up
        ELSE IF name \in DOMAIN cx[c].defs THEN c
        ELSE 0

\* Context::get_mut: the scope whose definition of name is handed to the
\* closure, searching from c up the parents; 0 when get_mut returns None.
RECURSIVE Holder(_, _, _)
Holder(cx, c, name) ==
    IF name \in DOMAIN cx[c].defs THEN c
    ELSE IF cx[c].parent # 0 THEN Holder(cx, cx[c].parent, name)
    ELSE 0

\* the definition get_mut hands to the closure (Holder # 0)
Found(cx, c, name) == cx[Holder(cx, c, name)].defs[name]

\* the orders in which a HashMap's iterator may yield the keys in S
Orders(S) ==
    {s \in [1..Cardinality(S) -> S] : \A i, j \in DOMAIN s : i # j => s[i] # s[j]}

\* all_unused without the loop over the children
all_unused_own(cx, c) ==
    LET unusedNames ==
            {k \in DOMAIN cx[c].defs : cx[c].defs[k].tag = "Var" /\ ~cx[c].defs[k].used}
    IN  {[i \in DOMAIN o |-> cx[c].defs[o[i]]] : o \in Orders(unusedNames)}

\* scope s is c or lies under c
RECURSIVE Under(_, _, _)
Under(cx, c, s) == s = c \/ (cx[s].parent # 0 /\ Under(cx, c, cx[s].parent))

\* all_unused gathering the scopes under c in one map: any order of the whole
all_unused_Shuffled(cx, c) ==
    LET P == {p \in (DOMAIN cx) \X Names :
                 /\ Under(cx, c, p[1])
                 /\ p[2] \in DOMAIN cx[p[1]].defs
                 /\ cx[p[1]].defs[p[2]].tag = "Var"
                 /\ ~cx[p[1]].defs[p[2]].used}
    IN  {[i \in DOMAIN o |-> cx[o[i][1]].defs[o[i][2]]] : o \in Orders(P)}

\* all_unused without the test of used
RECURSIVE all_unused_Used(_, _)
RECURSIVE children_unused_Used(_, _)
all_unused_Used(cx, c) ==
    LET unusedNames == {k \in DOMAIN cx[c].defs : cx[c].defs[k].tag = "Var"}
    IN  {[i \in DOMAIN o |-> cx[c].defs[o[i]]] \o rest :
            o \in Orders(unusedNames), rest \in children_unused_Used(cx, cx[c].children)}
children_unused_Used(cx, kids) ==
    IF kids = <<>> THEN {<<>>}
    ELSE {h \o t : h \in all_unused_Used(cx, kids[1]),
                   t \in children_unused_Used(cx, Tail(kids))}

\* Context::all_unused: the variables not used of scope c, then those of its
\* children in order; a set, for the map's iteration order is not fixed.
RECURSIVE all_unused(_, _)
RECURSIVE children_unused(_, _)
all_unused(cx, c) ==
    LET unusedNames ==
            {k \in DOMAIN cx[c].defs : cx[c].defs[k].tag = "Var" /\ ~cx[c].defs[k].used}
    IN  {[i \in DOMAIN o |-> cx[c].defs[o[i]]] \o rest :
            o \in Orders(unusedNames), rest \in children_unused(cx, cx[c].children)}
children_unused(cx, kids) ==
    IF kids = <<>> THEN {<<>>}
    ELSE {h \o t : h \in all_unused(cx, kids[1]), t \in children_unused(cx, Tail(kids))}

\* ------------------------------------------------------- StaticAnalyser
\* StaticAnalyser::new
new ==
    /\ ctx = <<Context(":root", 0, NoDefs)>>
    /\ current = 1
    /\ errors = <<>>
    /\ panicked = FALSE

\* the VariableDef arm inserting into the scope that defines the name already
ObserveVariableDef_Nearest(span, node, first) ==
    LET h == Holder(ctx, current, node.name)
        target == IF h = 0 THEN current ELSE h
    IN  /\ ctx' = [ctx EXCEPT ![target].defs =
                     Insert(@, node.name,
                            DefVar(span, node.name, node.n = 1, FALSE,
                                   node.n = 1 /\ first.kind = "FunctionExpr"))]
        /\ UNCHANGED <<current, errors, panicked>>

\* observe, arm Ast::VariableDef; first is the node of value (NoNode for None)
ObserveVariableDef(span, node, first) ==
    /\ ctx' = [ctx EXCEPT ![current].defs =
                 Insert(@, node.name,
                        DefVar(span, node.name, node.n = 1, FALSE,
                               node.n = 1 /\ first.kind = "FunctionExpr"))]
    /\ UNCHANGED <<current, errors, panicked>>

\* the ReferenceExpr arm with `undefined` and not `res.is_none() || undefined`
ObserveReferenceExpr_FoundOnly(span, node) ==
    LET h == Holder(ctx, current, node.name)
        isVar == h # 0 /\ ctx[h].defs[node.name].tag = "Var"
    IN  /\ ctx' = IF isVar THEN [ctx EXCEPT ![h].defs[node.name].used = TRUE] ELSE ctx
        /\ errors' = IF isVar /\ ~ctx[h].defs[node.name].defined
                     THEN Append(errors, Error("UsingUndefinedVariable", node.name, span))
                     ELSE errors
        /\ UNCHANGED <<current, panicked>>

\* the ReferenceExpr arm without `*used = true`
ObserveReferenceExpr_NotUsed(span, node) ==
    LET h == Holder(ctx, current, node.name)
        isVar == h # 0 /\ ctx[h].defs[node.name].tag = "Var"
        undefined == IF isVar THEN ~ctx[h].defs[node.name].defined ELSE TRUE
    IN  /\ errors' = IF h = 0 \/ undefined
                     THEN Append(errors, Error("UsingUndefinedVariable", node.name, span))
                     ELSE errors
        /\ UNCHANGED <<ctx, current, panicked>>

\* the ReferenceExpr arm with `undefined` starting as false: a name bound to
\* a function counts as defined
ObserveReferenceExpr_FnDefined(span, node) ==
    LET h == Holder(ctx, current, node.name)
        isVar == h # 0 /\ ctx[h].defs[node.name].tag = "Var"
        undefined == IF isVar THEN ~ctx[h].defs[node.name].defined ELSE FALSE
    IN  /\ ctx' = IF isVar THEN [ctx EXCEPT ![h].defs[node.name].used = TRUE] ELSE ctx
        /\ errors' = IF h = 0 \/ undefined
                     THEN Append(errors, Error("UsingUndefinedVariable", node.name, span))
                     ELSE errors
        /\ UNCHANGED <<current, panicked>>

\* observe, arm Ast::ReferenceExpr
ObserveReferenceExpr(span, node) ==
    LET h == Holder(ctx, current, node.name)
        isVar == h # 0 /\ ctx[h].defs[node.name].tag = "Var"
        undefined == IF isVar THEN ~ctx[h].defs[node.name].defined ELSE TRUE
    IN  /\ ctx' = IF isVar THEN [ctx EXCEPT ![h].defs[node.name].used = TRUE] ELSE ctx
        /\ errors' = IF h = 0 \/ undefined
                     THEN Append(errors, Error("UsingUndefinedVariable", node.name, span))
                     ELSE errors
        /\ UNCHANGED <<current, panicked>>

\* the parameters inserted as variables that cannot be called
RECURSIVE ParamDefs_NotCallable(_, _)
ParamDefs_NotCallable(span, params) ==
    IF params = <<>> THEN NoDefs
    ELSE LET p == params[Len(params)]
         IN  Insert(ParamDefs_NotCallable(span, SubSeq(params, 1, Len(params) - 1)), p,
                    DefVar(span, p, TRUE, FALSE, FALSE))

\* the child Context of observe's arm Ast::FunctionExpr, its parameters inserted in order
RECURSIVE ParamDefs(_, _)
ParamDefs(span, params) ==
    IF params = <<>> THEN NoDefs
    ELSE LET p == params[Len(params)]
         IN  Insert(ParamDefs(span, SubSeq(params, 1, Len(params) - 1)), p,
                    DefVar(span, p, TRUE, FALSE, TRUE))

\* the FunctionExpr arm without `children.push(wrapped)`
ObserveFunctionExpr_NoPush(span, node) ==
    LET child == Context(node.name, current, ParamDefs(span, node.params))
        wrapped == Len(ctx) + 1
    IN  /\ ctx' = Append([ctx EXCEPT
                     ![current].defs = Insert(@, node.name, DefFn(span, node.name, Len(node.params)))],
                   child)
        /\ current' = wrapped
        /\ UNCHANGED <<errors, panicked>>

\* observe, arm Ast::FunctionExpr
ObserveFunctionExpr(span, node) ==
    LET child == Context(node.name, current, ParamDefs(span, node.params))
        wrapped == Len(ctx) + 1
    IN  /\ ctx' = Append([ctx EXCEPT
                     ![current].defs = Insert(@, node.name, DefFn(span, node.name, Len(node.params))),
                     ![current].children = Append(@, wrapped)],
                   child)
        /\ current' = wrapped
        /\ UNCHANGED <<errors, panicked>>

\* Option<T>: None is <<>>, Some(x) is <<x>>
None == <<>>
Some(x) == <<x>>

\* Callee taking every variable for callable
Callee_AnyVar(cx, c, name) ==
    LET h == Holder(cx, c, name)
    IN  IF h = 0 THEN None
        ELSE LET def == cx[h].defs[name]
             IN  IF def.tag = "Fn" THEN Some(Some(def.args)) ELSE Some(None)

\* the value of `a` after the closure of observe's arm Ast::FunctionCall:
\* None, Some(None) for a callable variable, Some(Some(args)) for a function
Callee(cx, c, name) ==
    LET h == Holder(cx, c, name)
    IN  IF h = 0 THEN None
        ELSE LET def == cx[h].defs[name]
             IN  IF def.tag = "Fn" THEN Some(Some(def.args))
                 ELSE IF def.callable THEN Some(None)
                 ELSE None

\* the FunctionCall arm with `args.len() > a` and not `args.len() != a`
ObserveFunctionCall_TooMany(span, node) ==
    LET h == Holder(ctx, current, node.name)
        def == ctx[h].defs[node.name]
    IN  /\ errors' =
              IF h = 0 \/ (def.tag = "Var" /\ ~def.callable)
              THEN Append(errors, Error("CallingUndefinedFunction", node.name, span))
              ELSE IF def.tag = "Fn" /\ node.n > def.args
              THEN Append(errors, Error("WrongNumberOfArguments", node.name, span))
              ELSE errors
        /\ UNCHANGED <<ctx, current, panicked>>

\* the FunctionCall arm aborting the analysis on an undefined callee
ObserveFunctionCall_Fatal(span, node) ==
    LET a == Callee(ctx, current, node.name)
    IN  /\ errors' =
              IF a = None
              THEN Append(errors, Error("CallingUndefinedFunction", node.name, span))
              ELSE IF a[1] # None /\ node.n # a[1][1]
              THEN Append(errors, Error("WrongNumberOfArguments", node.name, span))
              ELSE errors
        /\ panicked' = (a = None)
        /\ UNCHANGED <<ctx, current>>

\* observe, arm Ast::FunctionCall
ObserveFunctionCall(span, node) ==
    LET a == Callee(ctx, current, node.name)
    IN  /\ errors' =
              IF a = None
              THEN Append(errors, Error("CallingUndefinedFunction", node.name, span))
              ELSE IF a[1] # None /\ node.n # a[1][1]
              THEN Append(errors, Error("WrongNumberOfArguments", node.name, span))
              ELSE errors
        /\ UNCHANGED <<ctx, current, panicked>>

\* the Assign arm looking the name up without marking it defined
ObserveAssign_LookupOnly(span, node, first) ==
    IF first.kind = "ReferenceExpr"
    THEN LET h == Holder(ctx, current, first.name)
         IN  /\ errors' = IF h = 0
                          THEN Append(errors, Error("UsingUndefinedVariable", first.name, span))
                          ELSE errors
             /\ UNCHANGED <<ctx, current, panicked>>
    ELSE UNCHANGED visitor

\* observe, arm Ast::BinOp { op: BinOp::Assign, lhs, .. }; first is the node of lhs
ObserveAssign(span, node, first) ==
    IF first.kind = "ReferenceExpr"
    THEN LET h == Holder(ctx, current, first.name)
             isVar == h # 0 /\ ctx[h].defs[first.name].tag = "Var"
         IN  /\ ctx' = IF isVar THEN [ctx EXCEPT ![h].defs[first.name].defined = TRUE] ELSE ctx
             /\ errors' = IF h = 0
                          THEN Append(errors, Error("UsingUndefinedVariable", first.name, span))
                          ELSE errors
             /\ UNCHANGED <<current, panicked>>
    ELSE UNCHANGED visitor

\* observe without the arm of BinOp Assign: an assignment falls to `_ => ()`
observe_NoAssignArm(span, node, first) ==
    CASE node.kind = "VariableDef" -> ObserveVariableDef(span, node, first)
      [] node.kind = "ReferenceExpr" -> ObserveReferenceExpr(span, node)
      [] node.kind = "FunctionExpr" -> ObserveFunctionExpr(span, node)
      [] node.kind = "FunctionCall" -> ObserveFunctionCall(span, node)
      [] OTHER -> UNCHANGED visitor

\* AstVisitor::observe of StaticAnalyser
observe(span, node, first) ==
    CASE node.kind = "VariableDef" -> ObserveVariableDef(span, node, first)
      [] node.kind = "ReferenceExpr" -> ObserveReferenceExpr(span, node)
      [] node.kind = "FunctionExpr" -> ObserveFunctionExpr(span, node)
      [] node.kind = "FunctionCall" -> ObserveFunctionCall(span, node)
      [] node.kind = "BinOp" /\ node.op = "Assign" -> ObserveAssign(span, node, first)
      [] OTHER -> UNCHANGED visitor

\* backtrack that stays in a scope without parent and does not panic
backtrack_NoPanic(from) ==
    IF from.kind = "FunctionExpr" /\ ctx[current].parent # 0
    THEN /\ current' = ctx[current].parent
         /\ UNCHANGED <<ctx, errors, panicked>>
    ELSE UNCHANGED visitor

\* backtrack leaving the current scope whatever node has finished
backtrack_AnyNode(from) ==
    IF ctx[current].parent # 0
    THEN /\ current' = ctx[current].parent
         /\ UNCHANGED <<ctx, errors, panicked>>
    ELSE IF from.kind = "FunctionExpr"
    THEN /\ panicked' = TRUE
         /\ UNCHANGED <<ctx, current, errors>>
    ELSE UNCHANGED visitor

\* AstVisitor::backtrack of StaticAnalyser; from is the finished child
backtrack(from) ==
    IF from.kind = "FunctionExpr"
    THEN IF ctx[current].parent # 0
         THEN /\ current' = ctx[current].parent
              /\ UNCHANGED <<ctx, errors, panicked>>
         ELSE /\ panicked' = TRUE
              /\ UNCHANGED <<ctx, current, errors>>
    ELSE UNCHANGED visitor

\* done putting the unused variables in front of the list
done_InFront ==
    /\ \E unused \in all_unused(ctx, current) :
          errors' = [i \in DOMAIN unused |->
                        Error("UnusedVariable", unused[i].name, unused[i].span)]
                    \o errors
    /\ UNCHANGED <<ctx, current, panicked>>

\* AstVisitor::done of StaticAnalyser
done ==
    /\ \E unused \in all_unused(ctx, current) :
          errors' = errors \o
                    [i \in DOMAIN unused |->
                        Error("UnusedVariable", unused[i].name, unused[i].span)]
    /\ UNCHANGED <<ctx, current, panicked>>

\* ------------------------------------------------------------- traversal
\* the record of a call on the visitor: its number, the method, and for
\* observe the span, the node and the node's first child
Event(type, span, node, first) ==
    [no |-> event.no + 1, type |-> type, span |-> span, node |-> node, first |-> first]

NoEvent == [no |-> 0, type |-> "none", span |-> 0, node |-> NoNode, first |-> NoNode]

\* AstNode::internal_traverse entered on the next node: visitor.observe, then
\* the loop over the children starts.
Observe ==
    /\ pc = "run" /\ ~panicked
    /\ IF stack = <<>> THEN pos = 0 ELSE stack[Len(stack)].left > 0
    /\ \E a1 \in Fix(ast, free, pos + 1) :
          LET node == a1[pos + 1]
              f1 == IF Len(a1) > Len(ast) THEN free + Size(node) ELSE free
          IN  \E a2 \in IF node.n > 0 THEN Fix(a1, f1, pos + 2) ELSE {a1} :
                 LET first == IF node.n > 0 THEN a2[pos + 2] ELSE NoNode
                 IN  /\ ast' = a2
                     /\ free' = IF Len(a2) > Len(a1) THEN f1 + Size(first) ELSE f1
                     /\ observe(pos + 1, node, first)
                     /\ event' = Event("observe", pos + 1, node, first)
                     /\ stack' = Append(stack, [idx |-> pos + 1, left |-> node.n])
    /\ pos' = pos + 1
    /\ pc' = pc

\* internal_traverse handing the parent to backtrack as the finished child
Backtrack_FromParent ==
    /\ pc = "run" /\ ~panicked
    /\ Len(stack) >= 2
    /\ stack[Len(stack)].left = 0
    /\ backtrack(ast[stack[Len(stack) - 1].idx])
    /\ event' = Event("backtrack", 0, ast[stack[Len(stack) - 1].idx], NoNode)
    /\ stack' = [SubSeq(stack, 1, Len(stack) - 1) EXCEPT ![Len(stack) - 1].left = @ - 1]
    /\ UNCHANGED <<ast, free, pos, pc>>

\* AstNode::internal_traverse returns from a child: visitor.backtrack(child, parent)
Backtrack ==
    /\ pc = "run" /\ ~panicked
    /\ Len(stack) >= 2
    /\ stack[Len(stack)].left = 0
    /\ backtrack(ast[stack[Len(stack)].idx])
    /\ event' = Event("backtrack", 0, ast[stack[Len(stack)].idx], NoNode)
    /\ stack' = [SubSeq(stack, 1, Len(stack) - 1) EXCEPT ![Len(stack) - 1].left = @ - 1]
    /\ UNCHANGED <<ast, free, pos, pc>>

\* AstNode::traverse: internal_traverse returned from the root, visitor.done
Done ==
    /\ pc = "run" /\ ~panicked
    /\ Len(stack) = 1
    /\ stack[1].left = 0
    /\ done
    /\ event' = Event("done", 0, NoNode, NoNode)
    /\ stack' = <<>>
    /\ pc' = "done"
    /\ UNCHANGED <<ast, free, pos>>

\* The beginnings of the inputs: nothing (any AST of size at most MaxNodes),
\* and top-level blocks whose first statements are given.
Given ==
    { <<>>,
      \* var a = function f(){}; ...
      <<Block(2), VariableDef("a", 1), FunctionExpr("f", <<>>, 0)>>,
      \* function f(a){ a } ...
      <<Block(2), FunctionExpr("f", <<"a">>, 1), ReferenceExpr("a")>>,
      \* var a = 1; ...
      <<Block(2), VariableDef("a", 1), AstNumber>>,
      \* var a = 1; function f(a){ ... }
      <<Block(2), VariableDef("a", 1), AstNumber, FunctionExpr("f", <<"a">>, 1)>>,
      \* var a = 1; function f(){ var a; ... }
      <<Block(2), VariableDef("a", 1), AstNumber, FunctionExpr("f", <<>>, 2),
        VariableDef("a", 0)>>,
      \* var a; a = ...; ...
      <<Block(3), VariableDef("a", 0), AstBinOp("Assign"), ReferenceExpr("a")>>,
      \* var a; a = ...
      <<Block(2), VariableDef("a", 0), AstBinOp("Assign"), ReferenceExpr("a")>> }

Init ==
    /\ new
    /\ ast \in Given
    /\ free = 0
    /\ pos = 0
    /\ stack = <<>>
    /\ pc = "run"
    /\ event = NoEvent

Next == Observe \/ Backtrack \/ Done

Spec == Init /\ [][Next]_vars

\* ------------------------------------------------- a driver of its own
\* StaticAnalyser is a public AstVisitor: any caller may call observe,
\* backtrack and done in any order, with any node.
EventParams == SeqsUpTo(Names, MaxArity)

\* the nodes handed to observe, each with what observe reads of its first child
EventNodes ==
    {<<nd, NoNode>> : nd \in
        {AstString, AstNumber, Block(0), AstBinOp("Add")}
        \cup {ReferenceExpr(nm) : nm \in Names}
        \cup {FunctionExpr(nm, ps, 0) : nm \in Names, ps \in EventParams}
        \cup {FunctionCall(nm, k) : nm \in Names, k \in 0..MaxArity}
        \cup {VariableDef(nm, 0) : nm \in Names}}
    \cup {<<VariableDef(nm, 1), v>> :
            nm \in Names, v \in {AstNumber, FunctionExpr("f", <<>>, 0)}}
    \cup {<<AstBinOp("Assign"), l>> :
            l \in {AstNumber} \cup {ReferenceExpr(nm) : nm \in Names}}

\* the finished children handed to backtrack: one node of every kind
EventFrom ==
    {AstString, AstNumber, Block(0), AstBinOp("Add"), ReferenceExpr("a"),
     FunctionExpr("f", <<>>, 0), FunctionCall("f", 0), VariableDef("a", 0)}

VisitorObserve ==
    /\ ~panicked /\ event.no < MaxEvents
    /\ \E e \in EventNodes :
          /\ observe(event.no + 1, e[1], e[2])
          /\ event' = Event("observe", event.no + 1, e[1], e[2])
    /\ UNCHANGED driver

VisitorBacktrack ==
    /\ ~panicked /\ event.no < MaxEvents
    /\ \E from \in EventFrom :
          /\ backtrack(from)
          /\ event' = Event("backtrack", 0, from, NoNode)
    /\ UNCHANGED driver

VisitorDone ==
    /\ ~panicked /\ event.no < MaxEvents
    /\ done
    /\ event' = Event("done", 0, NoNode, NoNode)
    /\ UNCHANGED driver

InitVisitor ==
    /\ new
    /\ ast = <<>>
    /\ free = 0
    /\ pos = 0
    /\ stack = <<>>
    /\ pc = "run"
    /\ event = NoEvent

NextVisitor == VisitorObserve \/ VisitorBacktrack \/ VisitorDone

SpecVisitor == InitVisitor /\ [][NextVisitor]_vars

\* ================================================================ claims
UsingUndefinedVariable(name, span) == Error("UsingUndefinedVariable", name, span)
CallingUndefinedFunction(name, span) == Error("CallingUndefinedFunction", name, span)
WrongNumberOfArguments(name, span) == Error("WrongNumberOfArguments", name, span)
UnusedVariable(name, span) == Error("UnusedVariable", name, span)

\* the step delivers observe of a node of the given kind to the visitor
Observing(kind) ==
    event'.no = event.no + 1 /\ event'.type = "observe" /\ event'.node.kind = kind

\* the step delivers observe of an assignment whose lhs is a bare reference
ObservingAssignToName ==
    /\ Observing("BinOp")
    /\ event'.node.op = "Assign"
    /\ event'.first.kind = "ReferenceExpr"

\* the step is the done call that ends AstNode::traverse
Finishing == pc = "run" /\ pc' = "done"

\* how many diagnostics equal to e the list holds
Count(errs, e) == Cardinality({k \in DOMAIN errs : errs[k] = e})

\* the nearest FunctionExpr that strictly encloses node i (0: none)
EnclFn(a, i) ==
    LET S == {k \in 1..(i - 1) : a[k].kind = "FunctionExpr" /\ InSub(a, k, i)}
    IN  IF S = {} THEN 0 ELSE CHOOSE k \in S : \A m \in S : m <= k

\* the parent of node i (0 for the root)
ParentOf(a, i) ==
    LET S == {k \in 1..(i - 1) : InSub(a, k, i)}
    IN  IF S = {} THEN 0 ELSE CHOOSE k \in S : \A m \in S : m <= k

\* node j lies in the scope of the declaration at node i, or in a nested one
InScopeOf(a, i, j) == EnclFn(a, i) = 0 \/ InSub(a, EnclFn(a, i), j)

\* no Reference in the scope of declaration i, or in a nested one, names it
NeverReferenced(a, i) ==
    \A j \in 1..Len(a) :
        (a[j].kind = "ReferenceExpr" /\ a[j].name = a[i].name) => ~InScopeOf(a, i, j)

\* a later VariableDef or FunctionExpr declares the name of i in the same scope
Replaced(a, i) ==
    \E j \in (i + 1)..Len(a) :
        /\ a[j].kind \in {"VariableDef", "FunctionExpr"}
        /\ a[j].name = a[i].name
        /\ EnclFn(a, j) = EnclFn(a, i)

\* ---- C1
ScenarioF ==
    <<Block(2), VariableDef("a", 1), FunctionExpr("f", <<>>, 0), FunctionCall("a", 0)>>

\* C1: analysing `var c = function(){}; c()` yields an empty diagnostic list
\* after done (stated as claimed; the analyser reports the variable unused).
C1_ScenarioF_NoDiagnostics == (pc = "done" /\ ast = ScenarioF) => errors = <<>>

UnusedCount(i) == Count(errors, UnusedVariable(ast[i].name, i))

\* C3 as claimed: every VariableDef never referenced in its scope or a nested
\* one gets exactly one UnusedVariable, also when the name is declared again.
C3_Original ==
    pc = "done" =>
        \A i \in 1..Len(ast) :
            (ast[i].kind = "VariableDef" /\ NeverReferenced(ast, i)) => UnusedCount(i) = 1

\* C3 amended: every VariableDef never referenced in its scope or a nested one
\* gets exactly one UnusedVariable, at any depth, unless a later VariableDef or
\* FunctionExpr declares the same name in the same scope; then it gets none.
C3_UnusedReportedOnce ==
    pc = "done" =>
        \A i \in 1..Len(ast) :
            (ast[i].kind = "VariableDef" /\ NeverReferenced(ast, i)) =>
                UnusedCount(i) = IF Replaced(ast, i) THEN 0 ELSE 1

\* a variable declared inside a function body and never referenced was reported
C3_Witness ==
    /\ pc = "done"
    /\ \E i \in 1..Len(ast) :
          /\ ast[i].kind = "VariableDef" /\ EnclFn(ast, i) # 0 /\ ctx[current].parent = 0
          /\ NeverReferenced(ast, i) /\ ~Replaced(ast, i)
          /\ UnusedCount(i) = 1

\* ---- C4
ScenarioC ==
    <<Block(2), FunctionExpr("f", <<"a">>, 1), ReferenceExpr("a"),
      FunctionCall("f", 2), AstNumber, AstNumber>>

\* C4: observing a FunctionCall with N arguments whose nearest definition is a
\* Function of arity A appends exactly one WrongNumberOfArguments when N # A
\* and nothing when N = A; when the nearest definition is a callable Variable
\* it appends nothing for any N; `function f(x){ x } f(1,2)` ends with exactly
\* [WrongNumberOfArguments{f}].
C4_ArityChecked ==
    [][ /\ (Observing("FunctionCall") /\ Holder(ctx, current, event'.node.name) # 0) =>
              LET name == event'.node.name
                  def == Found(ctx, current, name)
              IN  /\ (def.tag = "Fn" /\ event'.node.n # def.args)
                        => errors' = Append(errors, WrongNumberOfArguments(name, event'.span))
                  /\ (def.tag = "Fn" /\ event'.node.n = def.args) => errors' = errors
                  /\ (def.tag = "Var" /\ def.callable) => errors' = errors
        /\ (Finishing /\ ast = ScenarioC) => errors' = <<WrongNumberOfArguments("f", 4)>>
      ]_vars

\* `function f(x){ x } f(1,2)` was analysed to the end
C4_Witness ==
    pc = "done" /\ ast = ScenarioC /\ errors = <<WrongNumberOfArguments("f", 4)>>

\* ---- C5
\* C5 as claimed: a FunctionCall f with the right number of arguments that is
\* visited before the FunctionExpr f of the same block gets no
\* CallingUndefinedFunction (the analyser defines f only when it observes the
\* FunctionExpr, so the earlier call is reported).
C5_ForwardVisible ==
    pc = "done" =>
        \A j, k \in 1..Len(ast) :
            ( /\ j < k
              /\ ast[j].kind = "FunctionCall" /\ ast[k].kind = "FunctionExpr"
              /\ ast[j].name = ast[k].name /\ ast[j].n = Len(ast[k].params)
              /\ ParentOf(ast, j) # 0 /\ ParentOf(ast, j) = ParentOf(ast, k)
              /\ ast[ParentOf(ast, j)].kind \in {"Block", "FunctionExpr"} )
            => Count(errors, CallingUndefinedFunction(ast[j].name, j)) = 0

\* ---- C6
\* the name a Reference, a call or an assignment to a bare name is about
UsedName(e) == IF e.node.kind = "BinOp" THEN e.first.name ELSE e.node.name

\* the step observes a reference, a call or an assignment to a bare name
ObservingUse ==
    Observing("ReferenceExpr") \/ Observing("FunctionCall") \/ ObservingAssignToName

\* every Reference to the name of declaration i lies in a later function that
\* has a parameter of that name
OnlyShadowedReferences(a, i) ==
    \A j \in 1..Len(a) :
        (a[j].kind = "ReferenceExpr" /\ a[j].name = a[i].name) =>
            \E k \in (i + 1)..(j - 1) :
                /\ a[k].kind = "FunctionExpr" /\ InSub(a, k, j)
                /\ \E q \in DOMAIN a[k].params : a[k].params[q] = a[i].name

\* C6: while the current scope holds a definition of X, a reference, call or
\* assignment to X reads and writes that definition only: the Reference sets
\* its used flag and is diagnosed by its defined flag, the assignment sets its
\* defined flag, the call is judged by it, and every other scope (any outer
\* definition of X) is unchanged; an outer variable referenced only through a
\* shadowing parameter is reported unused.
C6_Shadowing ==
    [][ /\ (ObservingUse /\ UsedName(event') \in DOMAIN ctx[current].defs) =>
              LET X == UsedName(event')
                  inner == ctx[current].defs[X]
                  kind == event'.node.kind
              IN  /\ current' = current
                  /\ Len(ctx') = Len(ctx)
                  /\ \A s \in DOMAIN ctx : s # current => ctx'[s] = ctx[s]
                  /\ DOMAIN ctx'[current].defs = DOMAIN ctx[current].defs
                  /\ \A Y \in DOMAIN ctx[current].defs :
                        Y # X => ctx'[current].defs[Y] = ctx[current].defs[Y]
                  /\ (kind = "ReferenceExpr" /\ inner.tag = "Var") =>
                        /\ ctx'[current].defs[X] = [inner EXCEPT !.used = TRUE]
                        /\ errors' = IF inner.defined THEN errors
                                     ELSE Append(errors, UsingUndefinedVariable(X, event'.span))
                  /\ (kind = "BinOp" /\ inner.tag = "Var") =>
                        /\ ctx'[current].defs[X] = [inner EXCEPT !.defined = TRUE]
                        /\ errors' = errors
                  /\ (kind = "FunctionCall" \/ inner.tag = "Fn") =>
                        ctx'[current].defs[X] = inner
                  /\ (kind = "FunctionCall" /\ inner.tag = "Var") =>
                        errors' = IF inner.callable THEN errors
                                  ELSE Append(errors, CallingUndefinedFunction(X, event'.span))
        /\ Finishing =>
              \A i \in 1..Len(ast) :
                  ( /\ ast[i].kind = "VariableDef" /\ ~Replaced(ast, i)
                    /\ OnlyShadowedReferences(ast, i) )
                  => Count(errors', UnusedVariable(ast[i].name, i)) = 1
      ]_vars

\* `var a = 1; function f(a){ a }`: the Reference in f marked the parameter
\* used, the outer a is reported unused
C6_Witness ==
    /\ pc = "done"
    /\ ast = <<Block(2), VariableDef("a", 1), AstNumber,
               FunctionExpr("f", <<"a">>, 1), ReferenceExpr("a")>>
    /\ ctx[2].defs["a"].used /\ ~ctx[1].defs["a"].used
    /\ errors = <<UnusedVariable("a", 2)>>

\* ---- C7
ScenarioB == <<Block(2), VariableDef("a", 0), ReferenceExpr("a")>>

\* C7: observing a Reference whose nearest definition is a Variable that is
\* not defined sets its used flag and appends UsingUndefinedVariable, as for a
\* name not found; `var a; a` ends with exactly [UsingUndefinedVariable{a}].
C7_DeclaredNotAssigned ==
    [][ /\ (Observing("ReferenceExpr") /\ Holder(ctx, current, event'.node.name) # 0) =>
              LET X == event'.node.name
                  h == Holder(ctx, current, X)
              IN  (ctx[h].defs[X].tag = "Var" /\ ~ctx[h].defs[X].defined) =>
                      /\ ctx'[h].defs[X].used
                      /\ errors' = Append(errors, UsingUndefinedVariable(X, event'.span))
        /\ (Finishing /\ ast = ScenarioB) => errors' = <<UsingUndefinedVariable("a", 3)>>
      ]_vars

\* `var a; a` was analysed to the end
C7_Witness ==
    /\ pc = "done" /\ ast = ScenarioB
    /\ ctx[1].defs["a"].used /\ ~ctx[1].defs["a"].defined
    /\ errors = <<UsingUndefinedVariable("a", 3)>>

\* ---- C8
ScenarioE == <<Block(1), FunctionCall("f", 0)>>

\* C8: observing a FunctionCall whose name has no definition in the scope
\* chain, or whose nearest definition is a Variable that is not callable,
\* appends exactly one CallingUndefinedFunction (and no
\* WrongNumberOfArguments) whatever the number of arguments; `h()` with h not
\* declared ends with exactly [CallingUndefinedFunction{h}].
C8_UndefinedCall ==
    [][ /\ Observing("FunctionCall") =>
              LET X == event'.node.name
                  h == Holder(ctx, current, X)
              IN  (h = 0 \/ (ctx[h].defs[X].tag = "Var" /\ ~ctx[h].defs[X].callable)) =>
                      errors' = Append(errors, CallingUndefinedFunction(X, event'.span))
        /\ (Finishing /\ ast = ScenarioE) => errors' = <<CallingUndefinedFunction("f", 2)>>
      ]_vars

\* a call with an argument of a declared variable that is not callable was
\* reported
C8_Witness ==
    /\ event.type = "observe" /\ event.node.kind = "FunctionCall" /\ event.node.n > 0
    /\ Holder(ctx, current, event.node.name) # 0
    /\ Found(ctx, current, event.node.name).tag = "Var"
    /\ ~Found(ctx, current, event.node.name).callable
    /\ errors = <<CallingUndefinedFunction(event.node.name, event.span)>>

\* ---- C9
\* C9: in the list a complete traversal returns, every UnusedVariable comes
\* after every other diagnostic, and the other diagnostics are in the order
\* their nodes were observed (pre-order: growing span).
C9_UnusedLast ==
    pc = "done" =>
        \A i, j \in DOMAIN errors :
            i < j =>
                /\ errors[i].kind = "UnusedVariable" => errors[j].kind = "UnusedVariable"
                /\ (errors[i].kind # "UnusedVariable" /\ errors[j].kind # "UnusedVariable")
                      => errors[i].span < errors[j].span

\* a list with two diagnostics of the traversal followed by an UnusedVariable
\* whose declaration came first
C9_Witness ==
    /\ pc = "done" /\ Len(errors) = 3
    /\ errors[1].kind # "UnusedVariable" /\ errors[2].kind # "UnusedVariable"
    /\ errors[3].kind = "UnusedVariable" /\ errors[3].span < errors[1].span

\* ---- C10
\* C10: a backtrack whose finished child is a FunctionExpr, received while the
\* current scope has no parent, panics: the process is aborted (no later call
\* reaches the visitor) and the diagnostics, the current scope and the scopes
\* are as before.
C10_LeaveRootPanics ==
    [][ /\ ( /\ event'.no = event.no + 1 /\ event'.type = "backtrack"
              /\ event'.node.kind = "FunctionExpr" /\ ctx[current].parent = 0 )
            => (panicked' /\ errors' = errors /\ current' = current /\ ctx' = ctx)
        /\ ~panicked
      ]_vars

\* the panic happened with diagnostics in the list
C10_Witness ==
    /\ panicked /\ errors # <<>>
    /\ event.type = "backtrack" /\ event.node.kind = "FunctionExpr"
    /\ ctx[current].parent = 0

\* ---- C11
\* list s is a prefix of list t
IsPrefix(s, t) == Len(s) <= Len(t) /\ \A k \in DOMAIN s : t[k] = s[k]

\* some VariableDef, FunctionExpr or parameter of the tree declares the name
Declared(a, nm) ==
    \E k \in DOMAIN a :
        \/ a[k].kind \in {"VariableDef", "FunctionExpr"} /\ a[k].name = nm
        \/ a[k].kind = "FunctionExpr" /\ \E q \in DOMAIN a[k].params : a[k].params[q] = nm

\* C11: every call of the visitor leaves the diagnostics it found as a prefix
\* of the diagnostics it returns with, no diagnostic aborts the traversal, and
\* when the traversal ends every node was observed and every Reference and
\* FunctionCall of a name the tree declares nowhere has its diagnostic, the
\* ones after an earlier diagnostic included.
C11_AppendOnlyNonFatal ==
    [][ /\ IsPrefix(errors, errors')
        /\ ~panicked'
        /\ Finishing =>
              /\ pos = Len(ast)
              /\ \A j \in DOMAIN ast :
                    ~Declared(ast, ast[j].name) =>
                       /\ ast[j].kind = "ReferenceExpr" =>
                             Count(errors', UsingUndefinedVariable(ast[j].name, j)) = 1
                       /\ ast[j].kind = "FunctionCall" =>
                             Count(errors', CallingUndefinedFunction(ast[j].name, j)) = 1
      ]_vars

\* an undefined call whose argument, observed after it, is diagnosed too
C11_Witness ==
    /\ pc = "done"
    /\ \E j \in DOMAIN ast :
          /\ ast[j].kind = "FunctionCall" /\ ast[j].n = 1
          /\ ast[j + 1].kind = "ReferenceExpr"
          /\ errors = <<CallingUndefinedFunction(ast[j].name, j),
                        UsingUndefinedVariable(ast[j + 1].name, j + 1)>>

\* ---- C12
\* the scope that holds the variable an UnusedVariable diagnostic reports
ScopeOfUnused(cx, e) ==
    CHOOSE s \in DOMAIN cx :
        /\ e.name \in DOMAIN cx[s].defs
        /\ cx[s].defs[e.name].tag = "Var"
        /\ cx[s].defs[e.name].span = e.span

\* the lists done may return from a state: one for every order in which the
\* maps of the scopes may be iterated
Outcomes ==
    {errors \o [i \in DOMAIN u |-> UnusedVariable(u[i].name, u[i].span)] :
        u \in all_unused(ctx, current)}

\* C12: the list an analysis returns and the list any other analysis of the
\* same tree returns (the iteration order of the maps is all that can differ
\* between them) hold the same diagnostics, and at every position both hold
\* the same diagnostic or two UnusedVariable diagnostics of the same scope.
C12_Deterministic ==
    [][ Finishing =>
           \A other \in Outcomes :
              /\ Len(other) = Len(errors')
              /\ {other[k] : k \in DOMAIN other} = {errors'[k] : k \in DOMAIN errors'}
              /\ \A k \in DOMAIN other :
                    \/ other[k] = errors'[k]
                    \/ /\ other[k].kind = "UnusedVariable"
                       /\ errors'[k].kind = "UnusedVariable"
                       /\ ScopeOfUnused(ctx, other[k]) = ScopeOfUnused(ctx, errors'[k])
      ]_vars

\* a finished analysis that had more than one list to return: two unused
\* variables in a function's scope, after an unused one of the root scope
C12_Witness ==
    /\ pc = "done"
    /\ Cardinality(all_unused(ctx, current)) > 1
    /\ \E s \in DOMAIN ctx :
          /\ s # current
          /\ Cardinality({k \in DOMAIN ctx[s].defs :
                             ctx[s].defs[k].tag = "Var" /\ ~ctx[s].defs[k].used}) = 2
    /\ \E k \in DOMAIN ctx[current].defs :
          ctx[current].defs[k].tag = "Var" /\ ~ctx[current].defs[k].used

\* ---- C13
\* the variables not used that the scopes of the tree hold (scope, name)
UnusedOfTree(cx) ==
    {p \in (DOMAIN cx) \X Names :
        /\ p[2] \in DOMAIN cx[p[1]].defs
        /\ cx[p[1]].defs[p[2]].tag = "Var"
        /\ ~cx[p[1]].defs[p[2]].used}

\* C13: the done call that ends a traversal appends UnusedVariable
\* diagnostics only: exactly one for every variable with used = false that any
\* scope of the tree holds, none for a used variable or a function, the root
\* scope's first and every scope's before those of the scopes entered later.
C13_SweepCoversTree ==
    [][ Finishing =>
           LET added == SubSeq(errors', Len(errors) + 1, Len(errors'))
           IN  /\ IsPrefix(errors, errors')
               /\ Len(added) = Cardinality(UnusedOfTree(ctx))
               /\ \A k \in DOMAIN added : added[k].kind = "UnusedVariable"
               /\ \A p \in UnusedOfTree(ctx) :
                     Count(added, UnusedVariable(p[2], ctx[p[1]].defs[p[2]].span)) = 1
               /\ \A i, j \in DOMAIN added :
                     i < j => ScopeOfUnused(ctx, added[i]) <= ScopeOfUnused(ctx, added[j])
      ]_vars

\* the sweep reported a variable of the root scope, one of a function's scope
\* and one of a function nested in it, and passed over a function definition
C13_Witness ==
    /\ pc = "done" /\ Len(ctx) = 3 /\ ctx[3].parent = 2
    /\ \A s \in 1..3 : \E p \in UnusedOfTree(ctx) : p[1] = s
    /\ \E nm \in DOMAIN ctx[1].defs : ctx[1].defs[nm].tag = "Fn"
    /\ Len(errors) = Cardinality(UnusedOfTree(ctx))

\* ---- C14
\* the shape of the scope tree: the scopes with their names, parents, children
Shape(cx) ==
    [s \in DOMAIN cx |->
        [name |-> cx[s].name, parent |-> cx[s].parent, children |-> cx[s].children]]

\* the step delivers backtrack from a finished child of the given kind
Backtracking(kind) ==
    event'.no = event.no + 1 /\ event'.type = "backtrack" /\ event'.node.kind = kind

\* C14: a call of the visitor that is neither observe of a FunctionExpr nor
\* backtrack from one leaves the current scope and the shape of the scope tree
\* as they were; observe of a FunctionExpr makes a new child of the current
\* scope the current scope, and backtrack from one in a scope with a parent
\* makes the parent the current scope without changing the tree.
C14_ScopeChangesOnFunctionExprOnly ==
    [][ /\ ( /\ event'.no = event.no + 1
             /\ ~Observing("FunctionExpr") /\ ~Backtracking("FunctionExpr") )
            => (current' = current /\ Shape(ctx') = Shape(ctx))
        /\ Observing("FunctionExpr") =>
              /\ current' = Len(ctx) + 1 /\ Len(ctx') = Len(ctx) + 1
              /\ ctx'[current'].parent = current
        /\ (Backtracking("FunctionExpr") /\ ctx[current].parent # 0) =>
              (current' = ctx[current].parent /\ Shape(ctx') = Shape(ctx))
      ]_vars

\* a child that is not a FunctionExpr finished inside a function's scope, and
\* the analyser stayed in that scope
C14_Witness ==
    /\ event.type = "backtrack" /\ event.node.kind # "FunctionExpr"
    /\ ctx[current].parent # 0
    /\ ~panicked

\* ---- C15
\* var a; a = 1; a
ScenarioAssign ==
    <<Block(3), VariableDef("a", 0), AstBinOp("Assign"), ReferenceExpr("a"), AstNumber,
      ReferenceExpr("a")>>

\* C15: observe of an Assign whose lhs is a bare Reference to X sets defined
\* on the nearest variable X, whatever it was, changes nothing else and emits
\* nothing; it emits UsingUndefinedVariable with the span of the Assign when
\* no scope of the chain defines X; an Assign with another lhs changes and
\* emits nothing. A Reference to a variable so marked emits nothing, and
\* `var a; a = 1; a` ends without diagnostics.
C15_AssignDefines ==
    [][ /\ ObservingAssignToName =>
              LET X == event'.first.name
                  h == Holder(ctx, current, X)
              IN  /\ (h # 0 /\ ctx[h].defs[X].tag = "Var") =>
                        /\ ctx'[h].defs[X] = [ctx[h].defs[X] EXCEPT !.defined = TRUE]
                        /\ Shape(ctx') = Shape(ctx)
                        /\ \A s \in DOMAIN ctx :
                              /\ DOMAIN ctx'[s].defs = DOMAIN ctx[s].defs
                              /\ \A nm \in DOMAIN ctx[s].defs :
                                    (s # h \/ nm # X) => ctx'[s].defs[nm] = ctx[s].defs[nm]
                        /\ errors' = errors
                  /\ h = 0 =>
                        /\ errors' = Append(errors, UsingUndefinedVariable(X, event'.span))
                        /\ ctx' = ctx
        /\ ( /\ Observing("BinOp") /\ event'.node.op = "Assign"
             /\ event'.first.kind # "ReferenceExpr" )
            => (ctx' = ctx /\ errors' = errors)
        /\ ( /\ Observing("ReferenceExpr")
             /\ Holder(ctx, current, event'.node.name) # 0
             /\ Found(ctx, current, event'.node.name).tag = "Var"
             /\ Found(ctx, current, event'.node.name).defined )
            => errors' = errors
        /\ (Finishing /\ ast = ScenarioAssign) => errors' = <<>>
      ]_vars

\* `var a; a = 1; a` analysed to its end, without diagnostics
C15_Witness == pc = "done" /\ ast = ScenarioAssign /\ errors = <<>>

\* ---- C16
\* the definition is one that observe of a FunctionExpr made for a parameter
IsParam(def) == def.tag = "Var" /\ ast[def.span].kind = "FunctionExpr"

\* observe of a FunctionExpr makes a child of the current scope, current from
\* then on, that holds one fresh variable for every distinct parameter name
ParamScopeMade ==
    Observing("FunctionExpr") =>
        LET nd == event'.node
            c == Len(ctx) + 1
        IN  /\ Len(ctx') = c /\ current' = c
            /\ ctx'[c].parent = current
            /\ ctx'[current].children = Append(ctx[current].children, c)
            /\ DOMAIN ctx'[c].defs = {nd.params[q] : q \in DOMAIN nd.params}
            /\ \A nm \in DOMAIN ctx'[c].defs :
                  LET d == ctx'[c].defs[nm]
                  IN  /\ d.tag = "Var" /\ d.name = nm /\ d.span = event'.span
                      /\ d.defined /\ ~d.used /\ d.callable

\* a Reference to a parameter and a call of one, with any arguments, emit nothing
ParamAccepted ==
    (Observing("ReferenceExpr") \/ Observing("FunctionCall")) =>
        LET nm == event'.node.name
        IN  (Holder(ctx, current, nm) # 0 /\ IsParam(Found(ctx, current, nm)))
               => errors' = errors

\* no Reference in the body of the FunctionExpr at k names p
NotReferencedInBody(a, k, p) ==
    \A j \in DOMAIN a :
        (j > k /\ InSub(a, k, j)) => ~(a[j].kind = "ReferenceExpr" /\ a[j].name = p)

\* a VariableDef or FunctionExpr of the body of k declares p in k's own scope
DeclaredInBody(a, k, p) ==
    \E j \in DOMAIN a :
        /\ a[j].kind \in {"VariableDef", "FunctionExpr"}
        /\ a[j].name = p
        /\ EnclFn(a, j) = k

\* C16 as claimed: the scope of the parameters is made, parameters are
\* accepted, and every parameter no Reference of the body names is reported
\* as UnusedVariable at done.
C16_Original ==
    [][ /\ ParamScopeMade
        /\ ParamAccepted
        /\ Finishing =>
              \A k \in DOMAIN ast : \A q \in DOMAIN ast[k].params :
                  (ast[k].kind = "FunctionExpr" /\ NotReferencedInBody(ast, k, ast[k].params[q]))
                     => Count(errors', UnusedVariable(ast[k].params[q], k)) = 1
      ]_vars

\* C16: the scope of the parameters is made, parameters are accepted, and
\* every parameter no Reference of the body names is reported once as
\* UnusedVariable at done, unless the body declares the name again in the
\* function's own scope.
C16_ParameterScope ==
    [][ /\ ParamScopeMade
        /\ ParamAccepted
        /\ Finishing =>
              \A k \in DOMAIN ast : \A q \in DOMAIN ast[k].params :
                  ( /\ ast[k].kind = "FunctionExpr"
                    /\ NotReferencedInBody(ast, k, ast[k].params[q])
                    /\ ~DeclaredInBody(ast, k, ast[k].params[q]) )
                     => Count(errors', UnusedVariable(ast[k].params[q], k)) = 1
      ]_vars

\* a function that names one parameter twice and never refers to it: one
\* variable in its scope, reported once
C16_Witness ==
    /\ pc = "done"
    /\ \E k \in DOMAIN ast :
          /\ ast[k].kind = "FunctionExpr" /\ Len(ast[k].params) = 2
          /\ ast[k].params[1] = ast[k].params[2]
          /\ errors = <<UnusedVariable(ast[k].params[1], k)>>

\* ---- C17
\* the places (scope, index) of the children lists that hold scope s
PlacesOf(cx, s) ==
    {p \in (DOMAIN cx) \X (1..Len(cx)) :
        p[2] \in DOMAIN cx[p[1]].children /\ cx[p[1]].children[p[2]] = s}

\* the scopes are one tree rooted in scope 1 and cur is one of them: every
\* other scope has a parent made before it, and is held once, by its parent
TreeOK(cx, cur) ==
    /\ cx[1].parent = 0 /\ PlacesOf(cx, 1) = {}
    /\ \A s \in 2..Len(cx) :
          /\ cx[s].parent \in 1..(s - 1)
          /\ Cardinality(PlacesOf(cx, s)) = 1
          /\ \A p \in PlacesOf(cx, s) : p[1] = cx[s].parent
    /\ cur \in DOMAIN cx

\* C17: after every call of the visitor the scopes are one rooted tree that
\* holds the current scope; observe of a FunctionExpr adds exactly one scope and
\* no other call adds one (so the scopes are one more than the FunctionExpr
\* nodes observed); no scope is removed, given another parent or taken out of
\* a children list.
C17_ScopeTree ==
    [][ /\ TreeOK(ctx', current')
        /\ Len(ctx') = Len(ctx) + (IF Observing("FunctionExpr") THEN 1 ELSE 0)
        /\ \A s \in DOMAIN ctx :
              /\ ctx'[s].parent = ctx[s].parent
              /\ ctx'[s].name = ctx[s].name
              /\ IsPrefix(ctx[s].children, ctx'[s].children)
      ]_vars

\* two functions observed one after the other: the scope of the first is kept
\* in the tree after the analyser has left it
C17_Witness ==
    /\ Len(ctx) = 3 /\ ctx[1].children = <<2, 3>>
    /\ ctx[2].parent = 1 /\ ctx[3].parent = 1
    /\ current = 3

\* ---- C18
\* the step writes the entry of nm in the current scope's mapping and no
\* other entry of any scope that existed
WritesCurrentOnly(nm) ==
    /\ \A s \in DOMAIN ctx : s # current => ctx'[s].defs = ctx[s].defs
    /\ DOMAIN ctx'[current].defs = DOMAIN ctx[current].defs \cup {nm}
    /\ \A k \in DOMAIN ctx[current].defs : k # nm => ctx'[current].defs[k] = ctx[current].defs[k]

\* C18: observe of a VariableDef, and the registration of the function that
\* observe of a FunctionExpr makes, write one entry, that of the declared name
\* in the mapping of the current scope, new or in the place of the one that
\* was there, with fresh flags; the mappings of all other scopes stay as they
\* were.
C18_DeclarationsWriteCurrentScope ==
    [][ /\ Observing("VariableDef") =>
              LET nd == event'.node
                  d == ctx'[current].defs[nd.name]
              IN  /\ WritesCurrentOnly(nd.name)
                  /\ d.tag = "Var" /\ d.span = event'.span /\ d.name = nd.name
                  /\ ~d.used
                  /\ d.defined = (nd.n = 1)
                  /\ d.callable = (event'.first.kind = "FunctionExpr")
        /\ Observing("FunctionExpr") =>
              LET nd == event'.node
                  d == ctx'[current].defs[nd.name]
              IN  /\ WritesCurrentOnly(nd.name)
                  /\ d.tag = "Fn" /\ d.span = event'.span /\ d.name = nd.name
                  /\ d.args = Len(nd.params)
      ]_vars

\* a VariableDef in a function's body of the name of a parameter and of a
\* variable of the root scope: the function's scope holds the fresh
\* variable, the root scope the one it held
C18_Witness ==
    /\ event.type = "observe" /\ event.node.kind = "VariableDef"
    /\ current # 1
    /\ EnclFn(ast, event.span) # 0
    /\ \E q \in DOMAIN ast[EnclFn(ast, event.span)].params :
          ast[EnclFn(ast, event.span)].params[q] = event.node.name
    /\ ctx[current].defs[event.node.name].span = event.span
    /\ event.node.name \in DOMAIN ctx[1].defs
    /\ ctx[1].defs[event.node.name].tag = "Var"
    /\ ctx[1].defs[event.node.name].span < EnclFn(ast, event.span)

\* ---- C19
\* the number of scopes above scope c
RECURSIVE Depth(_, _)
Depth(cx, c) == IF cx[c].parent = 0 THEN 0 ELSE 1 + Depth(cx, cx[c].parent)

\* the FunctionExpr nodes that strictly enclose node i
EnclosingFns(a, i) ==
    {k \in 1..(i - 1) : a[k].kind = "FunctionExpr" /\ InSub(a, k, i)}

\* C19: in a traversal no call panics: every backtrack from a FunctionExpr
\* finds the current scope with a parent; a node is observed while the depth
\* of the current scope is the number of FunctionExpr nodes that strictly
\* enclose it; and done is called in the root scope unless the root of the
\* tree is a FunctionExpr.
C19_BalancedScopes ==
    [][ /\ ~panicked'
        /\ Backtracking("FunctionExpr") => ctx[current].parent # 0
        /\ (event'.no = event.no + 1 /\ event'.type = "observe") =>
              Depth(ctx, current) = Cardinality(EnclosingFns(ast', event'.span))
        /\ (Finishing /\ ast[1].kind # "FunctionExpr") => current = 1
      ]_vars

\* a traversal entered a function and one nested in it, left both, and ended
\* in the root scope
C19_Witness ==
    /\ pc = "done" /\ current = 1
    /\ Len(ctx) = 3 /\ ctx[3].parent = 2 /\ ctx[2].parent = 1

\* ---- C20
\* C20: observe of a Reference whose nearest definition is a function appends
\* one UsingUndefinedVariable with the name and span of the Reference, and
\* leaves every definition of every scope, and the current scope, as they were.
C20_FunctionNameReference ==
    [][ ( /\ Observing("ReferenceExpr")
          /\ Holder(ctx, current, event'.node.name) # 0
          /\ Found(ctx, current, event'.node.name).tag = "Fn" )
         => /\ errors' = Append(errors,
                                UsingUndefinedVariable(event'.node.name, event'.span))
            /\ ctx' = ctx
            /\ current' = current
      ]_vars

\* a declared function passed as the argument of a call: the Reference is the
\* one diagnostic
C20_Witness ==
    /\ event.type = "observe" /\ event.node.kind = "ReferenceExpr"
    /\ Holder(ctx, current, event.node.name) # 0
    /\ Found(ctx, current, event.node.name).tag = "Fn"
    /\ ParentOf(ast, event.span) # 0
    /\ ast[ParentOf(ast, event.span)].kind = "FunctionCall"
    /\ errors = <<UsingUndefinedVariable(event.node.name, event.span)>>

\* ---- C21
\* var a; a = a
ScenarioSelfAssign ==
    <<Block(2), VariableDef("a", 0), AstBinOp("Assign"), ReferenceExpr("a"),
      ReferenceExpr("a")>>

\* node j is an assignment to a bare name
AssignToName(a, j) ==
    /\ a[j].kind = "BinOp" /\ a[j].op = "Assign"
    /\ j + 1 <= Len(a) /\ a[j + 1].kind = "ReferenceExpr"

\* a node with span in lo..hi declares the name, as variable, function or parameter
DeclaredBetween(a, lo, hi, nm) ==
    \E k \in lo..hi :
        /\ k <= Len(a)
        /\ \/ a[k].kind \in {"VariableDef", "FunctionExpr"} /\ a[k].name = nm
           \/ a[k].kind = "FunctionExpr" /\ \E q \in DOMAIN a[k].params : a[k].params[q] = nm

\* the assignments to the name of the Reference at s whose rhs holds s, with
\* no declaration of the name from the assignment to s
AssignsAround(a, s) ==
    {j \in 1..(s - 2) :
        /\ AssignToName(a, j) /\ a[j + 1].name = a[s].name
        /\ InSub(a, j, s)
        /\ ~DeclaredBetween(a, j, s, a[s].name)}

\* C21: in `X = rhs` the Assign is observed, then at once the lhs Reference,
\* then the rhs. For a variable X the lhs Reference emits nothing and marks X
\* used, and a Reference to X in the rhs finds X defined and emits nothing;
\* `var a; a = a` ends without diagnostics, and a variable that an assignment
\* in its scope or a nested one resolves to gets no UnusedVariable.
C21_AssignBeforeOperands ==
    [][ /\ Observing("ReferenceExpr") =>
              LET s == event'.span
                  X == event'.node.name
                  h == Holder(ctx, current, X)
                  isVar == h # 0 /\ ctx[h].defs[X].tag = "Var"
              IN  /\ (s > 1 /\ AssignToName(ast', s - 1)) =>
                        /\ event.type = "observe" /\ event.span = s - 1
                        /\ isVar => /\ errors' = errors
                                    /\ ctx[h].defs[X].defined
                                    /\ ctx'[h].defs[X].used
                  /\ (AssignsAround(ast', s) # {} /\ isVar) =>
                        /\ \A j \in AssignsAround(ast', s) : j < pos
                        /\ ctx[h].defs[X].defined
                        /\ errors' = errors
        /\ (Finishing /\ ast = ScenarioSelfAssign) => errors' = <<>>
        /\ Finishing =>
              \A i, j \in DOMAIN ast :
                  ( /\ ast[i].kind = "VariableDef" /\ i < j
                    /\ AssignToName(ast, j) /\ ast[j + 1].name = ast[i].name
                    /\ InScopeOf(ast, i, j)
                    /\ ~DeclaredBetween(ast, i + 1, j, ast[i].name) )
                     => Count(errors', UnusedVariable(ast[i].name, i)) = 0
      ]_vars

\* `var a; a = a` analysed to its end, without diagnostics
C21_Witness == pc = "done" /\ ast = ScenarioSelfAssign /\ errors = <<>>

====
